---- MODULE Spec2Model ----
(***************************************************************************)
(* Model of tools/shortlink-cli.mjs: a command-line tool that keeps short  *)
(* link mappings in one JSON file.  Every invocation parses argv, loads    *)
(* the whole file, runs one command (add, remove, list, help) and possibly *)
(* rewrites the whole file.                                                *)
(*                                                                         *)
(* JavaScript strings are modelled as sequences of tokens (a token is a    *)
(* TLA+ string, one character for short codes), JavaScript values as       *)
(* tagged records: [t |-> "string", s |-> tokens], [t |-> "true"], ...     *)
(***************************************************************************)
EXTENDS Integers, Sequences, FiniteSets, TLC

----------------------------------------------------------------------------
(* Bounds of the model *)

\* the most records a mapping file holds
MaxRecs == 2
\* the last clock reading (milliseconds)
MaxTime == 1
\* the most invocations started when invocations overlap
MaxRuns == 3

----------------------------------------------------------------------------
(* JavaScript values *)

UNDEFINED == [t |-> "undefined"]
JSTRUE    == [t |-> "true"]
JSNULL    == [t |-> "null"]
Str(s)    == [t |-> "string", s |-> s]

\* JavaScript truthiness of the values that occur: undefined, null and ''
\* are falsy, true and non-empty strings are truthy
Truthy(v) == v.t = "true" \/ (v.t = "string" /\ v.s # <<>>)

\* v || d
OrElse(v, d) == IF Truthy(v) THEN v ELSE d

\* String(v), as a template literal or RegExp.test converts its argument
ToText(v) ==
  CASE v.t = "string"    -> v.s
    [] v.t = "true"      -> <<"t", "r", "u", "e">>
    [] v.t = "null"      -> <<"n", "u", "l", "l">>
    [] v.t = "undefined" -> <<"u", "n", "d", "e", "f", "i", "n", "e", "d">>

Range(f) == {f[i] : i \in DOMAIN f}

----------------------------------------------------------------------------
(* Program constants *)

base62 ==
  <<"0","1","2","3","4","5","6","7","8","9",
    "a","b","c","d","e","f","g","h","i","j","k","l","m",
    "n","o","p","q","r","s","t","u","v","w","x","y","z",
    "A","B","C","D","E","F","G","H","I","J","K","L","M",
    "N","O","P","Q","R","S","T","U","V","W","X","Y","Z">>

base62Safe ==
  <<"2","3","4","5","6","7","8","9",
    "a","b","c","d","e","f","g","h","i","j","k","m",
    "n","p","q","r","s","t","u","v","w","x","y","z",
    "A","B","C","D","E","F","G","H","J","K","L","M",
    "N","P","Q","R","S","T","U","V","W","X","Y","Z">>

CODE_MIN_LEN == 5
AVOID_AMBIGUOUS == TRUE
\* the floor of the code length, Math.max(CONFIG.CODE_MIN_LEN,4)
CODE_LEN_FLOOR == 4
\* the number of candidates getRandomCode tries
MAX_ATTEMPTS == 10000
\* the column width of list's padEnd
PAD_WIDTH == 12

\* the characters /^[0-9A-Za-z_-]+$/ accepts
CodeChars == Range(base62) \cup {"_", "-"}

----------------------------------------------------------------------------
(* randCode, getRandomCode *)

\* One candidate is made of len values of Math.floor(Math.random()*chars.length),
\* here idx[1..len].
randCode(len, safe, idx) ==
  LET chars == IF safe THEN base62Safe ELSE base62
  IN  [i \in 1..len |-> chars[idx[i] + 1]]

\* A stream of random draws is eventually constant: the candidates
\* prefix[1], ..., prefix[n], then rest for ever.
NthDraw(stream, i) ==
  IF i < Len(stream.prefix) THEN stream.prefix[i + 1] ELSE stream.rest

Max(a, b) == IF a >= b THEN a ELSE b

RECURSIVE drawLoop(_, _, _, _)
\* the for-loop of getRandomCode from iteration i on; once the stream has
\* become constant and that candidate collides, every later one collides
\* too and the loop runs to MAX_ATTEMPTS
drawLoop(used, stream, length, i) ==
  IF i >= MAX_ATTEMPTS
  THEN [ok |-> FALSE, code |-> Str(<<>>), draws |-> i]
  ELSE LET code == Str(randCode(length, AVOID_AMBIGUOUS, NthDraw(stream, i)))
       IN  IF code \notin used
           THEN [ok |-> TRUE, code |-> code, draws |-> i + 1]
           ELSE IF i >= Len(stream.prefix)
                THEN [ok |-> FALSE, code |-> Str(<<>>), draws |-> MAX_ATTEMPTS]
                ELSE drawLoop(used, stream, length, i + 1)

\* a faulty variant of getRandomCode: returns the first candidate unchecked
getRandomCodeUnchecked(existing, stream) ==
  [ok |-> TRUE,
   code |-> Str(randCode(Max(CODE_MIN_LEN, CODE_LEN_FLOOR), AVOID_AMBIGUOUS,
                         NthDraw(stream, 0))),
   draws |-> 1]

getRandomCode(existing, stream) ==
  LET length == Max(CODE_MIN_LEN, CODE_LEN_FLOOR)
      used   == {existing[k].code : k \in DOMAIN existing}
  IN  drawLoop(used, stream, length, 0)

----------------------------------------------------------------------------
(* parseArgs *)

OptKeys == {"url", "code", "expires", "password", "mobile", "desktop",
            "locale", "replace"}

\* argv tokens after the command: --key, or a plain value
FlagTok(k) == [dd |-> TRUE, key |-> k, v |-> <<>>]
ValTok(s)  == [dd |-> FALSE, key |-> "", v |-> s]

RECURSIVE parseRest(_, _, _)
parseRest(rest, i, opts) ==
  IF i > Len(rest) THEN opts
  ELSE LET token == rest[i]
       IN  IF ~token.dd THEN parseRest(rest, i + 1, opts)
           ELSE IF /\ i + 1 <= Len(rest)
                   /\ rest[i + 1].v # <<>>
                   /\ ~rest[i + 1].dd
                THEN parseRest(rest, i + 2,
                               [opts EXCEPT ![token.key] = Str(rest[i + 1].v)])
                ELSE parseRest(rest, i + 1,
                               [opts EXCEPT ![token.key] = JSTRUE])

\* argv is [cmd, rest]: cmd is argv[2] ("" when there is none)
parseArgs(argv) ==
  [cmd |-> IF argv.cmd = "" THEN "help" ELSE argv.cmd,
   o   |-> parseRest(argv.rest, 1, [k \in OptKeys |-> UNDEFINED])]

----------------------------------------------------------------------------
(* The mapping file: loadMappings, saveMappings *)

FileAbsent    == [kind |-> "absent", recs |-> <<>>]
FileBlank     == [kind |-> "blank", recs |-> <<>>]
FileNonArray  == [kind |-> "nonarray", recs |-> <<>>]
FileMalformed == [kind |-> "malformed", recs |-> <<>>]

loadMappings(f) ==
  CASE f.kind = "absent" -> [ok |-> TRUE, data |-> <<>>]
    [] f.kind = "blank"  -> [ok |-> TRUE, data |-> <<>>]
    [] f.kind = "array"  -> [ok |-> TRUE, data |-> f.recs]
    [] OTHER             -> [ok |-> FALSE, data |-> <<>>]

\* the content writeFile leaves: the JSON text of the array
saveMappings(data) == [kind |-> "array", recs |-> data]

----------------------------------------------------------------------------
(* ensureUnique, hashPassword, parseLocales, isValidUrl *)

\* a faulty variant of codeExists: never finds the code
codeExistsNever(code, data) == FALSE

\* data.some(item=>item.code===code): ensureUnique throws when it holds
codeExists(code, data) == \E k \in DOMAIN data : data[k].code = code

\* throws (ok = FALSE) for a value that is neither falsy nor a string
hashPassword(pwd) ==
  IF ~Truthy(pwd) THEN [ok |-> TRUE, v |-> JSNULL]
  ELSE IF pwd.t # "string" THEN [ok |-> FALSE, v |-> JSNULL]
  ELSE [ok |-> TRUE, v |-> Str(<<"sha256">> \o pwd.s)]

RECURSIVE splitFrom(_, _, _, _)
\* s.split(sep) from position i on, cur being the part collected so far
splitFrom(s, sep, i, cur) ==
  IF i > Len(s) THEN <<cur>>
  ELSE IF s[i] = sep THEN <<cur>> \o splitFrom(s, sep, i + 1, <<>>)
  ELSE splitFrom(s, sep, i + 1, Append(cur, s[i]))

split(s, sep) == splitFrom(s, sep, 1, <<>>)

RECURSIVE join(_, _)
join(parts, sep) ==
  IF Len(parts) = 0 THEN <<>>
  ELSE IF Len(parts) = 1 THEN parts[1]
  ELSE parts[1] \o <<sep>> \o join(Tail(parts), sep)

RECURSIVE trimStart(_)
trimStart(s) == IF s # <<>> /\ s[1] = " " THEN trimStart(Tail(s)) ELSE s

RECURSIVE trimEnd(_)
trimEnd(s) ==
  IF s # <<>> /\ s[Len(s)] = " " THEN trimEnd(SubSeq(s, 1, Len(s) - 1)) ELSE s

trim(s) == trimEnd(trimStart(s))

\* map[key]=value on an object kept as a sequence of pairs in insertion order
setKey(map, key, value) ==
  IF \E k \in DOMAIN map : map[k].lang = key
  THEN [k \in DOMAIN map |->
          IF map[k].lang = key THEN [lang |-> key, url |-> value] ELSE map[k]]
  ELSE Append(map, [lang |-> key, url |-> value])

RECURSIVE localePairs(_, _, _)
localePairs(pairs, i, map) ==
  IF i > Len(pairs) THEN map
  ELSE LET parts    == split(pairs[i], "=")
           lang     == parts[1]
           urlParts == Tail(parts)
       IN  IF lang = <<>> \/ Len(urlParts) = 0
           THEN localePairs(pairs, i + 1, map)
           ELSE localePairs(pairs, i + 1,
                            setKey(map, trim(lang), trim(join(urlParts, "="))))

\* throws (ok = FALSE) for a truthy value that has no split method
parseLocales(input) ==
  IF ~Truthy(input) THEN [ok |-> TRUE, v |-> <<>>]
  ELSE IF input.t # "string" THEN [ok |-> FALSE, v |-> <<>>]
  ELSE [ok |-> TRUE, v |-> localePairs(split(input.s, ","), 1, <<>>)]

\* the schemes of the modelled URLs; a special scheme needs a host
Schemes        == {"https", "http", "mailto"}
SpecialSchemes == {"https", "http"}

\* new URL(u) without a base succeeds when String(u) starts with a scheme and
\* a colon (and, for a special scheme, something follows)
isValidUrl(u) ==
  LET s == ToText(u)
  IN  /\ Len(s) >= 2 /\ s[1] \in Schemes /\ s[2] = ":"
      /\ s[1] \in SpecialSchemes => Len(s) >= 3

\* /^[0-9A-Za-z_-]+$/.test(code)
codeRegexTest(code) ==
  LET s == ToText(code)
  IN  Len(s) >= 1 /\ \A i \in 1..Len(s) : s[i] \in CodeChars

----------------------------------------------------------------------------
(* Date.prototype.toISOString for the first milliseconds of the epoch *)

Digits == <<"0", "1", "2", "3", "4", "5", "6", "7", "8", "9">>

toISOString(ms) == Str(<<"1970-01-01T00:00:00.00", Digits[ms + 1], "Z">>)

----------------------------------------------------------------------------
(* main: the commands.  A run yields                                        *)
(*   exit   process.exitCode (0 unless main() rejected)                     *)
(*   err    which throw or console.error ended it ("none" when neither)     *)
(*   out    the lines written by console.log                                *)
(*   save   whether saveMappings was called, and with which data            *)
(*   code   the short code of the record written by add                     *)
(*   draws  the number of candidates getRandomCode drew                     *)

Fail(err, data, draws) ==
  [exit |-> 1, err |-> err, out |-> <<>>, save |-> FALSE, data |-> data,
   code |-> UNDEFINED, draws |-> draws]

\* data.findIndex(item=>item.code===code), 0 standing for -1
findIndex(data, code) ==
  IF \E k \in DOMAIN data : data[k].code = code
  THEN CHOOSE k \in DOMAIN data :
         /\ data[k].code = code
         /\ \A j \in 1..(k - 1) : data[j].code # code
  ELSE 0

\* a faulty variant of place: replace mode removes the old record and appends
placeAtEnd(data, mapping, replace) ==
  Append(SelectSeq(data, LAMBDA r : r.code # mapping.code), mapping)

\* lines 138-143: where the new record goes
place(data, mapping, replace) ==
  IF Truthy(replace)
  THEN LET idx == findIndex(data, mapping.code)
       IN  IF idx >= 1 THEN [data EXCEPT ![idx] = mapping]
           ELSE Append(data, mapping)
  ELSE Append(data, mapping)

\* lines 123-146, once the code is settled
addRecord(o, data, now, code, draws) ==
  LET ph  == hashPassword(o.password)
      loc == parseLocales(o.locale)
  IN  IF ~ph.ok \/ ~loc.ok THEN Fail("typeError", data, draws)
      ELSE LET mapping ==
                 [code |-> code,
                  url |-> o.url,
                  createdAt |-> toISOString(now),
                  expiresAt |-> IF Truthy(o.expires) THEN o.expires ELSE JSNULL,
                  passwordHash |-> ph.v,
                  targets |->
                    [device |-> [mobile |-> OrElse(o.mobile, JSNULL),
                                 desktop |-> OrElse(o.desktop, JSNULL)],
                     locale |-> loc.v]]
           IN  [exit |-> 0, err |-> "none",
                out |-> << <<"WRITTEN">> \o ToText(code) \o <<"->">>
                           \o ToText(o.url) >>,
                save |-> TRUE, data |-> place(data, mapping, o.replace),
                code |-> code, draws |-> draws]

\* a faulty variant of urlCheck: the URL is not validated
urlCheckSkipped(url) == "none"

\* lines 113-115
urlCheck(url) ==
  IF ~Truthy(url) THEN "missingUrl"
  ELSE IF ~isValidUrl(url) THEN "invalidUrl"
  ELSE "none"

cmdAdd(o, data, now, stream) ==
  IF urlCheck(o.url) # "none" THEN Fail(urlCheck(o.url), data, 0)
  ELSE LET given == OrElse(o.code, Str(<<>>))
       IN  IF Truthy(given)
           THEN IF ~codeRegexTest(given) THEN Fail("invalidCode", data, 0)
                ELSE IF ~Truthy(o.replace) /\ codeExists(given, data)
                THEN Fail("duplicate", data, 0)
                ELSE addRecord(o, data, now, given, 0)
           ELSE LET g == getRandomCode(data, stream)
                IN  IF ~g.ok THEN Fail("exhausted", data, g.draws)
                    ELSE addRecord(o, data, now, g.code, g.draws)

\* a faulty variant of removeFilter: drops the first record whatever its code
removeFirst(data, code) == IF data = <<>> THEN data ELSE Tail(data)

\* data.filter(item=>item.code!==code)
removeFilter(data, code) == SelectSeq(data, LAMBDA r : r.code # code)

cmdRemove(o, data) ==
  IF ~Truthy(o.code) THEN Fail("missingCode", data, 0)
  ELSE LET filtered == removeFilter(data, o.code)
       IN  IF Len(filtered) = Len(data)
           THEN [exit |-> 0, err |-> "notFound", out |-> <<>>, save |-> FALSE,
                 data |-> data, code |-> UNDEFINED, draws |-> 0]
           ELSE [exit |-> 0, err |-> "none",
                 out |-> << <<"REMOVED">> \o ToText(o.code) >>,
                 save |-> TRUE, data |-> filtered, code |-> UNDEFINED,
                 draws |-> 0]

\* s.padEnd(n)
padEnd(s, n) ==
  IF Len(s) >= n THEN s ELSE s \o [i \in 1..(n - Len(s)) |-> " "]

\* `${item.code.padEnd(12)} ${item.url}`
listRow(item) == padEnd(item.code.s, PAD_WIDTH) \o <<" ">> \o ToText(item.url)

cmdList(data) ==
  IF Len(data) = 0
  THEN [exit |-> 0, err |-> "none", out |-> << <<"NO_LINKS">> >>,
        save |-> FALSE, data |-> data, code |-> UNDEFINED, draws |-> 0]
  ELSE IF \E k \in DOMAIN data : data[k].code.t # "string"
       \* item.code.padEnd is not a function
       THEN Fail("typeError", data, 0)
       ELSE [exit |-> 0, err |-> "none",
             out |-> [k \in DOMAIN data |-> listRow(data[k])],
             save |-> FALSE, data |-> data, code |-> UNDEFINED, draws |-> 0]

cmdHelp(data) ==
  [exit |-> 0, err |-> "none", out |-> << <<"USAGE">> >>, save |-> FALSE,
   data |-> data, code |-> UNDEFINED, draws |-> 0]

\* the switch of main, after parseArgs and loadMappings
dispatch(opts, data, now, stream) ==
  CASE opts.cmd = "add"    -> cmdAdd(opts.o, data, now, stream)
    [] opts.cmd = "remove" -> cmdRemove(opts.o, data)
    [] opts.cmd = "list"   -> cmdList(data)
    [] OTHER               -> cmdHelp(data)

\* a faulty variant of dataAtSave: the file is read again before the command runs
dataReloaded(loaded, current) == current

\* the array a command works on and saves is the one line 109 loaded, whatever
\* the file holds by the time the command runs
dataAtSave(loaded, current) == loaded

\* main with its catch handler: loadMappings runs before the switch
main(argv, f, now, stream) ==
  LET opts == parseArgs(argv)
      ld   == loadMappings(f)
  IN  IF ~ld.ok THEN Fail("parse", <<>>, 0)
      ELSE dispatch(opts, ld.data, now, stream)

----------------------------------------------------------------------------
(* Inputs *)

U1     == <<"https", ":", "//a.example">>
U2     == <<"https", ":", "//b.example">>
BadUrl == <<"not-a-url">>

CodeTwo == <<"2", "2", "2", "2", "2">>
BadCode == <<"2", "!">>

\* --code: not given, given without a value, a code the generator can also
\* draw, a code with a character outside the class
CodeChoices == {UNDEFINED, JSTRUE, Str(CodeTwo), Str(BadCode)}
FlagChoices == {UNDEFINED, JSTRUE}

ExtraKeys == {"expires", "password", "mobile", "desktop", "locale"}
NoExtras  == [k \in ExtraKeys |-> UNDEFINED]
LocaleArg ==
  <<"zh", "=", "u", "=", "1", ",", "bad", ",", "=", "x", ",",
    " ", "en", " ", "=", " ", "v", ",", "zh", "=", "w">>
FullExtras ==
  [NoExtras EXCEPT !["expires"] = Str(<<"2030-01-01">>),
                   !["password"] = Str(<<"pw">>),
                   !["mobile"] = Str(U2),
                   !["locale"] = Str(LocaleArg)]
BarePassword == [NoExtras EXCEPT !["password"] = JSTRUE]
BareLocale   == [NoExtras EXCEPT !["locale"] = JSTRUE]

\* --url together with the options that describe the target
TargetChoices ==
  {[url |-> UNDEFINED,   extras |-> NoExtras],
   [url |-> JSTRUE,      extras |-> NoExtras],
   [url |-> Str(BadUrl), extras |-> FullExtras],
   [url |-> Str(U1),     extras |-> NoExtras],
   [url |-> Str(U2),     extras |-> FullExtras],
   [url |-> Str(U1),     extras |-> BarePassword],
   [url |-> Str(U2),     extras |-> BareLocale]}

\* the index sequences Math.random yields for one candidate: "22222", "ZZZZZ"
DrawLow  == [i \in 1..5 |-> 0]
DrawHigh == [i \in 1..5 |-> 55]
Streams ==
  {[prefix |-> <<>>, rest |-> DrawLow],
   [prefix |-> <<>>, rest |-> DrawHigh],
   [prefix |-> <<DrawLow>>, rest |-> DrawHigh],
   [prefix |-> <<DrawHigh, DrawLow>>, rest |-> DrawLow]}
NoStream == [prefix |-> <<>>, rest |-> DrawLow]

\* the argv tokens that give option k the value c
OptTokens(k, c) ==
  IF c = UNDEFINED THEN <<>>
  ELSE IF c = JSTRUE THEN <<FlagTok(k)>>
  ELSE <<FlagTok(k), ValTok(c.s)>>

Argv(cmd, url, code, replace, extras) ==
  [cmd |-> cmd,
   rest |-> OptTokens("url", url) \o OptTokens("code", code)
            \o OptTokens("expires", extras["expires"])
            \o OptTokens("password", extras["password"])
            \o OptTokens("mobile", extras["mobile"])
            \o OptTokens("desktop", extras["desktop"])
            \o OptTokens("locale", extras["locale"])
            \o OptTokens("replace", replace)]

----------------------------------------------------------------------------
(* State: one process at a time, run to completion *)

VARIABLES
  file,    \* the content of the mapping file
  now,     \* the clock, in milliseconds
  proc,    \* the process that has just run (NoRun between invocations)
  before,  \* the content of the file when that process started
  added,   \* what the preceding process added: [code, url], or NoAdd
  procs,   \* two processes that overlap: where each is, its options, its data
  race,    \* what two overlapping processes that both saved did
  runs     \* the number of overlapping invocations started so far

vars == <<file, now, proc, before, added, procs, race, runs>>

\* no process has run since the last one exited
NoRun == [cmd |-> "none"]

NoAdd == [code |-> UNDEFINED]

Procs == {1, 2}

Idle == [pc |-> "idle"]

NoRace == [st |-> "none"]

Init ==
  /\ file \in {FileAbsent, FileBlank}
  /\ now = 0
  /\ proc = NoRun
  /\ before = file
  /\ added = NoAdd
  /\ procs = [p \in Procs |-> Idle]
  /\ race = NoRace
  /\ runs = 0

\* the file may hold any content when the tool is first run
InitAnyFile ==
  /\ file \in {FileAbsent, FileBlank, FileNonArray, FileMalformed}
  /\ now = 0
  /\ proc = NoRun
  /\ before = file
  /\ added = NoAdd
  /\ procs = [p \in Procs |-> Idle]
  /\ race = NoRace
  /\ runs = 0

\* one whole invocation: node shortlink-cli.mjs <argv>
Invoke(argv, stream) ==
  \E r \in {main(argv, file, now, stream)}, opts \in {parseArgs(argv)} :
    /\ Len(r.data) <= MaxRecs
    /\ file' = IF r.save THEN saveMappings(r.data) ELSE file
    /\ before' = file
    /\ proc' = [cmd |-> opts.cmd, o |-> opts.o,
                exit |-> r.exit, err |-> r.err, out |-> r.out,
                saved |-> r.save, code |-> r.code, draws |-> r.draws,
                after |-> added]
    /\ added' = IF opts.cmd = "add" /\ r.exit = 0
                THEN [code |-> r.code, url |-> opts.o.url]
                ELSE NoAdd
    /\ UNCHANGED <<now, procs, race, runs>>

Add ==
  /\ proc = NoRun
  /\ \E target \in TargetChoices, code \in CodeChoices,
        replace \in FlagChoices, stream \in Streams :
       /\ code # UNDEFINED => stream = NoStream
       /\ Invoke(Argv("add", target.url, code, replace, target.extras), stream)

Remove ==
  /\ proc = NoRun
  /\ \E code \in CodeChoices :
       Invoke(Argv("remove", UNDEFINED, code, UNDEFINED, NoExtras), NoStream)

List ==
  /\ proc = NoRun
  /\ Invoke(Argv("list", UNDEFINED, UNDEFINED, UNDEFINED, NoExtras), NoStream)

\* help, no command at all, or a command the switch does not know
Help ==
  /\ proc = NoRun
  /\ \E cmd \in {"help", "", "version"} :
       Invoke(Argv(cmd, UNDEFINED, UNDEFINED, UNDEFINED, NoExtras), NoStream)

\* the process is gone, and with it its options, its output and its status
Exit ==
  /\ proc # NoRun
  /\ proc' = NoRun
  /\ before' = file
  /\ UNCHANGED <<file, now, added, procs, race, runs>>

\* time passes between invocations
Tick ==
  /\ proc = NoRun
  /\ now < MaxTime
  /\ now' = now + 1
  /\ UNCHANGED <<file, proc, before, added, procs, race, runs>>

Next == Add \/ Remove \/ List \/ Help \/ Exit \/ Tick

Spec == Init /\ [][Next]_vars

SpecAnyFile == InitAnyFile /\ [][Next]_vars

----------------------------------------------------------------------------
(* Two invocations that overlap.  A process is suspended only in its reads   *)
(* and writes of the file (await loadMappings, await saveMappings): Load is  *)
(* main up to line 109, Finish is the rest of main.                          *)

ConcArgvs ==
  {Argv("add", Str(U1), Str(CodeTwo), UNDEFINED, NoExtras),
   Argv("add", Str(U2), Str(CodeTwo), JSTRUE, NoExtras),
   Argv("add", Str(U1), UNDEFINED, UNDEFINED, NoExtras),
   Argv("remove", UNDEFINED, Str(CodeTwo), UNDEFINED, NoExtras)}

Load(p) ==
  \E argv \in ConcArgvs :
    /\ procs[p].pc = "idle"
    /\ runs < MaxRuns
    /\ runs' = runs + 1
    /\ loadMappings(file).ok
    /\ procs' = [procs EXCEPT ![p] = [pc |-> "loaded", opts |-> parseArgs(argv),
                                      data |-> loadMappings(file).data]]
    /\ UNCHANGED <<file, now, proc, before, added, race>>

\* the change a finished command saved: the command, the code it was about,
\* its exit status and, for add, the record it wrote
ChangeOf(opts, r) ==
  IF opts.cmd = "add"
  THEN [cmd |-> opts.cmd, code |-> r.code, exit |-> r.exit, err |-> r.err,
        rec |-> r.data[CHOOSE k \in DOMAIN r.data : r.data[k].code = r.code]]
  ELSE [cmd |-> opts.cmd, code |-> opts.o.code, exit |-> r.exit,
        err |-> r.err]

Finish(p) ==
  \E stream \in Streams :
    LET me    == procs[p]
        other == procs[3 - p]
    IN  /\ me.pc = "loaded"
        /\ me.opts.o.code # UNDEFINED => stream = NoStream
        /\ \E r \in {dispatch(me.opts,
                               dataAtSave(me.data, loadMappings(file).data),
                               now, stream)} :
            /\ Len(r.data) <= MaxRecs
            /\ file' = IF r.save THEN saveMappings(r.data) ELSE file
            /\ procs' = [procs EXCEPT ![p] = Idle]
            /\ race' =
                 IF race.st = "first" /\ race.p # p /\ r.save
                 THEN [st |-> "both", p |-> race.p, first |-> race.first,
                       second |-> ChangeOf(me.opts, r), snapshot |-> me.data,
                       final |-> saveMappings(r.data)]
                 ELSE IF r.save /\ other.pc = "loaded"
                 THEN [st |-> "first", p |-> p, first |-> ChangeOf(me.opts, r)]
                 ELSE NoRace
            /\ UNCHANGED <<now, proc, before, added, runs>>

NextConc == (\E p \in Procs : Load(p)) \/ (\E p \in Procs : Finish(p)) \/ Tick

SpecConc == Init /\ [][NextConc]_vars

----------------------------------------------------------------------------
(* Vocabulary of the properties *)

\* the records of a file content, as the next invocation will load them
RecsOf(f) == IF f.kind = "array" THEN f.recs ELSE <<>>

HasCode(data, code) == \E k \in DOMAIN data : data[k].code = code

IsPrefix(p, s) == Len(p) <= Len(s) /\ SubSeq(s, 1, Len(p)) = p

\* the start of the line list prints for a code: the code in a column of
\* PAD_WIDTH characters and a blank
LineStart(code) ==
  code \o [i \in 1..(PAD_WIDTH - Len(code)) |-> " "] \o <<" ">>

ValidUrlGiven == proc.o.url \in {Str(U1), Str(U2)}

\* the fields the options of the add just run ask for
CarriesOptions(rec) ==
  /\ rec.url = proc.o.url
  /\ rec.expiresAt = (IF proc.o.expires = UNDEFINED THEN JSNULL
                      ELSE proc.o.expires)
  /\ (rec.passwordHash = JSNULL) = (proc.o.password = UNDEFINED)
  /\ rec.passwordHash \notin {proc.o.password}
  /\ rec.targets.device.mobile = (IF proc.o.mobile = UNDEFINED THEN JSNULL
                                  ELSE proc.o.mobile)
  /\ rec.targets.device.desktop = (IF proc.o.desktop = UNDEFINED THEN JSNULL
                                   ELSE proc.o.desktop)
  /\ (rec.targets.locale = <<>>) = (proc.o.locale = UNDEFINED)

----------------------------------------------------------------------------
(* C1 *)

\* C1: starting from an absent or empty file, after any sequence of add and
\* remove invocations no two records of the file have the same code.
C1_CodesUnique ==
  \A i, j \in DOMAIN RecsOf(file) :
    i # j => RecsOf(file)[i].code # RecsOf(file)[j].code

\* a full file whose last record was added under a generated code after a
\* first candidate collided
C1_Witness ==
  /\ proc.cmd = "add" /\ proc.exit = 0
  /\ proc.o.code = UNDEFINED /\ proc.draws = 2
  /\ Len(RecsOf(file)) = MaxRecs

----------------------------------------------------------------------------
(* C2 *)

\* C2 as stated: an add with an explicit --code that already exists in the
\* file and without --replace fails with the duplicate-code error, exit
\* status non-zero, and the file is as it was.
C2_Original ==
  (/\ proc.cmd = "add"
   /\ proc.o.code # UNDEFINED
   /\ HasCode(RecsOf(before), proc.o.code)
   /\ proc.o.replace = UNDEFINED)
  => (proc.err = "duplicate" /\ proc.exit = 1 /\ ~proc.saved /\ file = before)

\* C2 amended: an add with a valid --url, an explicit --code that already
\* exists in the file and no --replace fails with the duplicate-code error,
\* exit status non-zero, and the file is as it was; whatever the --url, it
\* fails with a non-zero exit status and the file is as it was.
C2_Amended ==
  (/\ proc.cmd = "add"
   /\ proc.o.code # UNDEFINED
   /\ HasCode(RecsOf(before), proc.o.code)
   /\ proc.o.replace = UNDEFINED)
  => /\ proc.exit = 1 /\ ~proc.saved /\ file = before
     /\ ValidUrlGiven => proc.err = "duplicate"

C2_Witness ==
  /\ proc.cmd = "add"
  /\ proc.o.code = Str(CodeTwo)
  /\ HasCode(RecsOf(before), proc.o.code)
  /\ proc.o.replace = UNDEFINED
  /\ ValidUrlGiven
  /\ proc.err = "duplicate"

----------------------------------------------------------------------------
(* C3 *)

----------------------------------------------------------------------------
(* C4 *)

\* C4: a remove whose --code matches no record leaves the file as it was,
\* writes nothing, reports not-found and ends with exit status 0; a remove
\* whose --code matches deletes that record, keeps the other records in
\* their order and writes the result.
C4_Remove ==
  (proc.cmd = "remove" /\ proc.o.code # UNDEFINED)
  => LET B == RecsOf(before)
         A == RecsOf(file)
     IN  IF ~HasCode(B, proc.o.code)
         THEN /\ file = before /\ ~proc.saved
              /\ proc.exit = 0 /\ proc.err = "notFound"
         ELSE /\ proc.saved /\ file.kind = "array" /\ proc.exit = 0
              /\ proc.err = "none"
              /\ \E idx \in DOMAIN B :
                   /\ B[idx].code = proc.o.code
                   /\ A = SubSeq(B, 1, idx - 1) \o SubSeq(B, idx + 1, Len(B))

\* a remove of a code that is not among the two records of the file
C4_Witness ==
  /\ proc.cmd = "remove"
  /\ proc.o.code = Str(CodeTwo)
  /\ Len(RecsOf(before)) = 2
  /\ ~HasCode(RecsOf(before), proc.o.code)
  /\ proc.err = "notFound"

----------------------------------------------------------------------------
(* C5 *)

\* C5: an add whose --url is missing or does not parse as an absolute URL
\* fails with an invalid-input error and a non-zero exit status before any
\* write, whatever the other options: the file is as it was.
C5_InvalidUrl ==
  (proc.cmd = "add" /\ ~ValidUrlGiven)
  => /\ proc.exit = 1
     /\ proc.err = (IF proc.o.url = UNDEFINED THEN "missingUrl"
                    ELSE "invalidUrl")
     /\ ~proc.saved
     /\ file = before

\* an unparseable url together with --replace and a code that exists
C5_Witness ==
  /\ proc.cmd = "add"
  /\ proc.o.url = Str(BadUrl)
  /\ proc.o.replace # UNDEFINED
  /\ HasCode(RecsOf(before), proc.o.code)
  /\ proc.exit = 1

----------------------------------------------------------------------------
(* C6 *)

\* C6 as stated: a list that directly follows a successful add of
\* (code, url) prints exactly one line for that code, that line pairs the
\* code with the url, and list writes nothing.
C6_Original ==
  (proc.cmd = "list" /\ proc.after # NoAdd)
  => LET start == LineStart(ToText(proc.after.code))
         mine  == {k \in DOMAIN proc.out : IsPrefix(start, proc.out[k])}
     IN  /\ Cardinality(mine) = 1
         /\ \A k \in mine : proc.out[k] = start \o ToText(proc.after.url)
         /\ ~proc.saved
         /\ file = before

----------------------------------------------------------------------------
(* C7 *)

\* C7 as stated: an add with a valid URL and no --code draws at most 10000
\* candidates, and either appends a record whose code is the code of no
\* prior record and is made of characters of [0-9A-Za-z_-], or all 10000
\* candidates collided and it fails with the generation-exhausted error and
\* the file is as it was.
C7_Original ==
  (proc.cmd = "add" /\ ValidUrlGiven /\ proc.o.code = UNDEFINED)
  => LET B == RecsOf(before)
         A == RecsOf(file)
     IN  /\ proc.draws <= MAX_ATTEMPTS
         /\ \/ /\ proc.exit = 0
               /\ A = Append(B, A[Len(A)])
               /\ ~HasCode(B, A[Len(A)].code)
               /\ A[Len(A)].code.t = "string"
               /\ A[Len(A)].code.s # <<>>
               /\ \A i \in DOMAIN A[Len(A)].code.s :
                    A[Len(A)].code.s[i] \in CodeChars
            \/ /\ proc.err = "exhausted"
               /\ proc.exit = 1
               /\ proc.draws = MAX_ATTEMPTS
               /\ file = before

----------------------------------------------------------------------------
(* C8 *)

\* C8 as stated: an invocation whose command is not add, remove or list
\* prints the usage text, exits with status 0 and does not write the file,
\* whatever the file holds.
C8_Original ==
  (proc.cmd \notin {"none", "add", "remove", "list"})
  => /\ proc.out = << <<"USAGE">> >>
     /\ proc.exit = 0
     /\ ~proc.saved
     /\ file = before

----------------------------------------------------------------------------
(* C9 *)

\* C9 as stated: while a record with some code remains in the file, no
\* invocation changes the createdAt stored for that code.
C9_Original ==
  [][\A i \in DOMAIN RecsOf(file) : \A j \in DOMAIN RecsOf(file') :
       RecsOf(file)[i].code = RecsOf(file')[j].code
       => RecsOf(file)[i].createdAt = RecsOf(file')[j].createdAt]_vars

----------------------------------------------------------------------------
(* C10 *)

\* the final file is what the last saver made of its own earlier load
FinalIsSecondsOwn ==
  LET final == race.final.recs
  IN  IF race.second.cmd = "remove"
      THEN final = SelectSeq(race.snapshot,
                             LAMBDA r : r.code # race.second.code)
      ELSE /\ race.second.rec \in Range(final)
           /\ \A r \in Range(final) :
                r \in Range(race.snapshot) \/ r = race.second.rec
           /\ \A r \in Range(race.snapshot) :
                r \in Range(final) \/ r.code = race.second.code

NeitherFailed ==
  /\ race.first.exit = 0 /\ race.first.err = "none"
  /\ race.second.exit = 0 /\ race.second.err = "none"

\* C10 as stated: when two invocations both load before either saves, the
\* final file is the record set the last saver computed from its own load,
\* the record the first saver added (or removed) is absent from (or still
\* in) the final file, and neither reports an error.
C10_Original ==
  race.st = "both"
  => /\ FinalIsSecondsOwn
     /\ race.first.cmd = "add" => race.first.rec \notin Range(race.final.recs)
     /\ race.first.cmd = "remove"
        => HasCode(race.final.recs, race.first.code)
     /\ NeitherFailed

\* C10 amended: when two invocations both load before either saves, the
\* final file is the record set the last saver computed from its own load
\* and neither reports an error; the first saver's change is absent from the
\* final file unless the last saver's own result holds the same change: its
\* load already held the added record or it added an identical one, its load
\* already lacked the removed code or it removed the same code.
C10_Amended ==
  race.st = "both"
  => /\ FinalIsSecondsOwn
     /\ (race.first.cmd = "add" /\ race.first.rec \in Range(race.final.recs))
        => (race.first.rec \in Range(race.snapshot)
            \/ (race.second.cmd = "add"
                /\ race.first.rec = race.second.rec))
     /\ (race.first.cmd = "remove"
         /\ ~HasCode(race.final.recs, race.first.code))
        => (~HasCode(race.snapshot, race.first.code)
            \/ (race.second.cmd = "remove"
                /\ race.second.code = race.first.code))
     /\ NeitherFailed

\* a lost update: both added, each under its own code, and the final file
\* holds the second record alone
C10_Witness ==
  /\ race.st = "both"
  /\ race.first.cmd = "add" /\ race.second.cmd = "add"
  /\ race.first.code # race.second.code
  /\ race.final.recs = <<race.second.rec>>
  /\ file = race.final

====
